---- MODULE Spec2Model ----
(***************************************************************************)
(* The HTTP service of src/api/main.py: app = FastAPI() with two GET       *)
(* routes, read_root on "/" and read_item on "/items/{item_id}".           *)
(*                                                                         *)
(* A request goes through the pipeline the decorators of main.py set up:   *)
(* route matching over the route table (method + path template), solving   *)
(* of the declared parameters (item_id: int from the path, q: str or None  *)
(* from the query string), the call of the endpoint function, the JSON     *)
(* encoding of its return value, the response.  Each connection holds one  *)
(* request at a time and advances through these steps; connections         *)
(* interleave freely.                                                      *)
(*                                                                         *)
(* Text is modelled as a sequence of one-character strings, so that        *)
(* parsing and trimming are computed and not assumed.  A path is the       *)
(* sequence of its segments: "/" is << <<>> >>, "/items/1" is              *)
(* << <<"items">>, <<"1">> >>, "/items/" is << <<"items">>, <<>> >>.       *)
(* A literal word of a path template ("items", "docs") is one token.       *)
(***************************************************************************)
EXTENDS Integers, Sequences, FiniteSets, TLC

\* ---------------------------------------------------------------- bounds
MaxSegLen == 3      \* characters in the {item_id} path segment
MaxQLen == 2        \* characters in a query value
MaxParams == 2      \* key=value pairs in a query string
NumConns == 2       \* connections of the concurrent specification

SeqsUpTo(S, n) == UNION {[1..k -> S] : k \in 0..n}

\* ---------------------------------------------------------------- values
\* Python values the endpoint functions receive and return.
PyInt(n) == [t |-> "int", i |-> n, s |-> <<>>, errs |-> <<>>]
PyStr(s) == [t |-> "str", i |-> 0, s |-> s, errs |-> <<>>]
PyNone == [t |-> "NoneType", i |-> 0, s |-> <<>>, errs |-> <<>>]

\* JSON values of a response body.
JInt(n) == [t |-> "number", i |-> n, s |-> <<>>, errs |-> <<>>]
JStr(s) == [t |-> "string", i |-> 0, s |-> s, errs |-> <<>>]
JNull == [t |-> "null", i |-> 0, s |-> <<>>, errs |-> <<>>]
JErrors(e) == [t |-> "array", i |-> 0, s |-> <<>>, errs |-> e]

\* ---------------------------------------------------------------- text
Digits == {"0", "1"}
DigitVal(c) == IF c = "1" THEN 1 ELSE 0

IsSpace(c) == c = " "

RECURSIVE LStrip(_)
LStrip(s) ==
    IF s # <<>> /\ IsSpace(Head(s)) THEN LStrip(Tail(s)) ELSE s

RECURSIVE RStrip(_)
RStrip(s) ==
    IF s # <<>> /\ IsSpace(s[Len(s)]) THEN RStrip(SubSeq(s, 1, Len(s) - 1)) ELSE s

Trim(s) == RStrip(LStrip(s))

IsDigits(s) == s # <<>> /\ \A k \in 1..Len(s) : s[k] \in Digits

RECURSIVE DigitsVal(_)
DigitsVal(s) ==
    IF s = <<>> THEN 0
    ELSE 10 * DigitsVal(SubSeq(s, 1, Len(s) - 1)) + DigitVal(s[Len(s)])

HasSign(s) == s # <<>> /\ Head(s) \in {"-", "+"}
Unsigned(s) == IF HasSign(s) THEN Tail(s) ELSE s
Sign(s) == IF s # <<>> /\ Head(s) = "-" THEN -1 ELSE 1

\* The position of the first "." of s, 0 when there is none.
DotAt(s) ==
    IF \E k \in 1..Len(s) : s[k] = "."
    THEN CHOOSE k \in 1..Len(s) : s[k] = "." /\ \A j \in 1..(k - 1) : s[j] # "."
    ELSE 0

\* A fractional part made of zeros only is dropped ("1.0", "1." -> "1").
StripDecimalZeros(s) ==
    LET d == DotAt(s) IN
    IF d > 0 /\ \A k \in (d + 1)..Len(s) : s[k] = "0"
    THEN SubSeq(s, 1, d - 1)
    ELSE s

\* ------------------------------------------------ item_id: int coercion
\* The digits the int validation reads from a path segment: surrounding
\* whitespace trimmed, an all-zero fractional part dropped, the sign kept.
CleanIntStr(s) == StripDecimalZeros(Trim(s))

\* Variant: digits are read from the front and the rest is ignored.
IntParsesPrefix(s) == Trim(s) # <<>> /\ Head(Unsigned(Trim(s)) \o <<"a">>) \in Digits

IntParses(s) == IsDigits(Unsigned(CleanIntStr(s)))

IntValue(s) == Sign(CleanIntStr(s)) * DigitsVal(Unsigned(CleanIntStr(s)))

\* ---------------------------------------------------------------- routes
Root == << <<>> >>

Lit(w) == [lit |-> <<w>>, param |-> ""]
Slash == [lit |-> <<>>, param |-> ""]
Param(name) == [lit |-> <<>>, param |-> name]

\* The documentation routes FastAPI() registers with its default arguments
\* (openapi_url, docs_url, swagger_ui_oauth2_redirect_url, redoc_url); they
\* are plain routes, which answer GET and HEAD.
DocRoute(path, endpoint) ==
    [path |-> path, methods |-> {"GET", "HEAD"}, endpoint |-> endpoint,
     api |-> FALSE, params |-> <<>>]

DefaultRoutes ==
    << DocRoute(<<Lit("openapi.json")>>, "openapi"),
       DocRoute(<<Lit("docs")>>, "swagger_ui_html"),
       DocRoute(<<Lit("docs"), Lit("oauth2-redirect")>>, "swagger_ui_redirect"),
       DocRoute(<<Lit("redoc")>>, "redoc_html") >>

\* @app.get("/") def read_root()
RootRoute ==
    [path |-> <<Slash>>, methods |-> {"GET"}, endpoint |-> "read_root",
     api |-> TRUE, params |-> <<>>]

\* Variant: q declared without its default.
ItemRouteRequiredQ ==
    [path |-> <<Lit("items"), Param("item_id")>>, methods |-> {"GET"},
     endpoint |-> "read_item", api |-> TRUE,
     params |-> << [name |-> "item_id", in |-> "path", type |-> "int", required |-> TRUE],
                   [name |-> "q", in |-> "query", type |-> "str", required |-> TRUE] >>]

\* @app.get("/items/{item_id}") def read_item(item_id: int, q: Union[str, None] = None)
ItemRoute ==
    [path |-> <<Lit("items"), Param("item_id")>>, methods |-> {"GET"},
     endpoint |-> "read_item", api |-> TRUE,
     params |-> << [name |-> "item_id", in |-> "path", type |-> "int", required |-> TRUE],
                   [name |-> "q", in |-> "query", type |-> "str", required |-> FALSE] >>]

\* The route table after main.py is imported, in registration order.
AppRoutes == DefaultRoutes \o <<RootRoute, ItemRoute>>

\* Variant: the template is matched as a prefix of the path.
PathMatchPrefix(tpl, path) ==
    /\ Len(path) >= Len(tpl)
    /\ \A k \in 1..Len(tpl) :
          IF tpl[k].param # "" THEN path[k] # <<>> ELSE path[k] = tpl[k].lit

\* A path template against a path: a literal part equals its segment, a
\* {param} part takes any non-empty segment ([^/]+), nothing is left over.
PathMatch(tpl, path) ==
    /\ Len(path) = Len(tpl)
    /\ \A k \in 1..Len(tpl) :
          IF tpl[k].param # "" THEN path[k] # <<>> ELSE path[k] = tpl[k].lit

PathParams(tpl, path) ==
    LET ks == SelectSeq([k \in 1..Len(tpl) |-> k], LAMBDA k : tpl[k].param # "")
    IN  [j \in 1..Len(ks) |-> <<tpl[ks[j]].param, path[ks[j]]>>]

\* Variant: the method is not looked at.
MatchesAnyMethod(route, method, path) ==
    IF ~PathMatch(route.path, path) THEN "NONE" ELSE "FULL"

Matches(route, method, path) ==
    IF ~PathMatch(route.path, path) THEN "NONE"
    ELSE IF method \notin route.methods THEN "PARTIAL"
    ELSE "FULL"

RECURSIVE StripSlashes(_)
StripSlashes(path) ==
    IF path # <<>> /\ path[Len(path)] = <<>>
    THEN StripSlashes(SubSeq(path, 1, Len(path) - 1))
    ELSE path

\* The path the router tries when nothing matched: trailing slashes
\* removed, or one added.
RedirectPath(path) ==
    IF path[Len(path)] = <<>> THEN StripSlashes(path) ELSE Append(path, <<>>)

\* ------------------------------------------------------------ parameters
Absent == [present |-> FALSE, v |-> <<>>]
Present(v) == [present |-> TRUE, v |-> v]

\* Mapping.get over a sequence of (key, value) pairs: the last value of the
\* key, as the multi-dict of the query string keeps it.
Get(pairs, key) ==
    LET ks == {k \in 1..Len(pairs) : pairs[k][1] = key}
    IN  IF ks = {} THEN Absent
        ELSE Present(pairs[CHOOSE k \in ks : \A j \in ks : j <= k][2])

NoError == [type |-> "", loc |-> <<>>, msg |-> "", input |-> <<>>]

\* Variant: the error names neither the parameter nor the input.
IntParsingErrorBare(p, v) ==
    [type |-> "int_parsing", loc |-> <<p.in>>,
     msg |-> "Input should be a valid integer, unable to parse string as an integer",
     input |-> <<>>]

IntParsingError(p, v) ==
    [type |-> "int_parsing", loc |-> <<p.in, p.name>>,
     msg |-> "Input should be a valid integer, unable to parse string as an integer",
     input |-> v]

MissingError(p) ==
    [type |-> "missing", loc |-> <<p.in, p.name>>, msg |-> "Field required",
     input |-> <<>>]

\* Variant: the annotation is ignored and the raw text is passed on.
ParamOutcomeRaw(p, path_params, query) ==
    LET raw == IF p.in = "path" THEN Get(path_params, p.name) ELSE Get(query, p.name)
    IN  IF raw.present
        THEN [name |-> p.name, ok |-> TRUE, value |-> PyStr(raw.v), error |-> NoError]
        ELSE [name |-> p.name, ok |-> TRUE, value |-> PyNone, error |-> NoError]

\* One declared parameter of the endpoint, read from the request and
\* validated against its annotation.
ParamOutcome(p, path_params, query) ==
    LET raw == IF p.in = "path" THEN Get(path_params, p.name) ELSE Get(query, p.name)
    IN  IF ~raw.present
        THEN IF p.required
             THEN [name |-> p.name, ok |-> FALSE, value |-> PyNone, error |-> MissingError(p)]
             ELSE [name |-> p.name, ok |-> TRUE, value |-> PyNone, error |-> NoError]
        ELSE IF p.type = "int"
        THEN IF IntParses(raw.v)
             THEN [name |-> p.name, ok |-> TRUE, value |-> PyInt(IntValue(raw.v)),
                   error |-> NoError]
             ELSE [name |-> p.name, ok |-> FALSE, value |-> PyNone,
                   error |-> IntParsingError(p, raw.v)]
        ELSE [name |-> p.name, ok |-> TRUE, value |-> PyStr(raw.v), error |-> NoError]

\* The keyword arguments of the endpoint and the validation errors.
SolveDependencies(params, path_params, query) ==
    LET out == [k \in 1..Len(params) |-> ParamOutcome(params[k], path_params, query)]
        good == SelectSeq(out, LAMBDA o : o.ok)
        bad == SelectSeq(out, LAMBDA o : ~o.ok)
    IN  [values |-> [k \in 1..Len(good) |-> <<good[k].name, good[k].value>>],
         errors |-> [k \in 1..Len(bad) |-> bad[k].error]]

\* ------------------------------------------------------------- endpoints
\* Variant: another greeting.
read_root_lower == << <<"hello", PyStr(<<"world">>)>> >>

read_root == << <<"Hello", PyStr(<<"World">>)>> >>

\* Variant: q or None, which turns the empty string into None.
read_item_falsy(item_id, q) ==
    << <<"item_id", item_id>>, <<"q", IF q.s = <<>> THEN PyNone ELSE q>> >>

read_item(item_id, q) == << <<"item_id", item_id>>, <<"q", q>> >>

Kwarg(kwargs, name) == Get(kwargs, name).v

CallEndpoint(endpoint, kwargs) ==
    IF endpoint = "read_root" THEN read_root
    ELSE read_item(Kwarg(kwargs, "item_id"), Kwarg(kwargs, "q"))

\* ------------------------------------------------------------- responses
JsonOf(v) ==
    IF v.t = "int" THEN JInt(v.i)
    ELSE IF v.t = "str" THEN JStr(v.s)
    ELSE JNull

\* The returned dict as a JSON object, keys in the order it was built.
JsonableEncoder(result) == [k \in 1..Len(result) |-> <<result[k][1], JsonOf(result[k][2])>>]

NoResponse == [status |-> 0, kind |-> "", body |-> <<>>, location |-> <<>>]

JsonResponse(status, body) ==
    [status |-> status, kind |-> "json", body |-> body, location |-> <<>>]

Detail(text) == << <<"detail", JStr(<<text>>)>> >>

NotFound == JsonResponse(404, Detail("Not Found"))
MethodNotAllowed == JsonResponse(405, Detail("Method Not Allowed"))
ValidationErrorResponse(errors) == JsonResponse(422, << <<"detail", JErrors(errors)>> >>)
RedirectResponse(path) ==
    [status |-> 307, kind |-> "redirect", body |-> <<>>, location |-> path]
DocResponse(endpoint) ==
    [status |-> 200, kind |-> endpoint, body |-> <<>>, location |-> <<>>]

\* ---------------------------------------------------------------- inputs
Methods == {"GET", "HEAD", "POST", "PUT", "DELETE", "PATCH"}

PathChars == {"0", "1", "-", "+", " ", ".", "a"}
QueryChars == {"a", " "}

\* Every text of at most MaxSegLen characters in the {item_id} position.
IdSegs == SeqsUpTo(PathChars, MaxSegLen) \ {<<>>}
ItemPaths == {<< <<"items">>, x >> : x \in IdSegs}

\* Paths of the other shapes: the root, the documentation paths, unknown
\* paths, and paths one slash or one segment away from a route.
ShapePaths ==
    { Root,
      << <<"nope">> >>, << <<"nope">>, <<>> >>, << <<>>, <<>> >>,
      << <<"items">> >>, << <<"items">>, <<>> >>,
      << <<"items">>, <<"1">> >>, << <<"items">>, <<"-", "1">> >>,
      << <<"items">>, <<"a">> >>,
      << <<"items">>, <<"1">>, <<>> >>, << <<"items">>, <<"a">>, <<>> >>,
      << <<"items">>, <<"1">>, <<>>, <<>> >>,
      << <<"items">>, <<"1">>, <<"1">> >>,
      << <<"docs">> >>, << <<"docs">>, <<>> >>, << <<"docs">>, <<"oauth2-redirect">> >>,
      << <<"openapi.json">> >>, << <<"redoc">> >> }

Pairs(keys, vals) == {<<k, v>> : k \in keys, v \in vals}

\* The query strings sent with an item path: none, or one q of any value.
ItemQueries == {<<>>} \cup {<< <<"q", v>> >> : v \in SeqsUpTo(QueryChars, MaxQLen)}

\* Query strings of several parameters, q repeated or mixed with others.
MultiQueries == SeqsUpTo(Pairs({"q", "x"}, {<<>>, <<"a">>}), MaxParams)

Request(m, p, q) == [method |-> m, path |-> p, query |-> q]

Requests ==
    {Request("GET", p, q) : p \in ItemPaths, q \in ItemQueries}
    \cup {Request(m, p, q) : m \in Methods, p \in ShapePaths, q \in MultiQueries}

\* The requests the connections of the concurrent specification send.
SampleRequests ==
    { Request("GET", Root, <<>>),
      Request("GET", << <<"items">>, <<"1">> >>, <<>>),
      Request("GET", << <<"items">>, <<"-", "1">> >>, << <<"q", <<"a">>>> >>),
      Request("GET", << <<"items">>, <<"a">> >>, <<>>),
      Request("GET", << <<"items">>, <<"1">>, <<>> >>, <<>>),
      Request("GET", << <<"nope">> >>, <<>>),
      Request("GET", << <<"docs">> >>, <<>>),
      Request("POST", << <<"items">>, <<"1">> >>, <<>>) }

\* ----------------------------------------------------------------- state
VARIABLES
    routes,     \* app.router.routes: the route table
    pc,         \* per connection: where its request is in the pipeline
    request,    \* per connection: the request being served
    scope,      \* per connection: the matched endpoint and its path_params
    solved,     \* per connection: the solved keyword arguments and errors
    result,     \* per connection: what the endpoint function returned
    response,   \* per connection: the response sent
    invoked,    \* per connection: the endpoint calls made for this request
    log         \* history: how the requests already answered went

vars == <<routes, pc, request, scope, solved, result, response, invoked, log>>

Conns == DOMAIN pc

NoRequest == Request("", <<>>, <<>>)
NoScope == [route |-> 0, endpoint |-> "", path_params |-> <<>>]
NoSolved == [values |-> <<>>, errors |-> <<>>]

Start(conns) ==
    /\ routes = AppRoutes
    /\ pc = [c \in conns |-> "idle"]
    /\ request = [c \in conns |-> NoRequest]
    /\ scope = [c \in conns |-> NoScope]
    /\ solved = [c \in conns |-> NoSolved]
    /\ result = [c \in conns |-> <<>>]
    /\ response = [c \in conns |-> NoResponse]
    /\ invoked = [c \in conns |-> <<>>]
    /\ log = {}

Init == Start({1})

InitConcurrent == Start(1..NumConns)

Inputs == IF Cardinality(Conns) = 1 THEN Requests ELSE SampleRequests

\* ------------------------------------------------------------- routing
Min(S) == CHOOSE k \in S : \A j \in S : k <= j

MatchSet(kind, req) ==
    {k \in 1..Len(routes) : Matches(routes[k], req.method, req.path) = kind}

\* Router.app: the first route that matches path and method.
FullMatch(req) ==
    IF MatchSet("FULL", req) = {} THEN 0 ELSE Min(MatchSet("FULL", req))

\* ... else the first route that matches the path alone.
PartialMatch(req) ==
    IF FullMatch(req) # 0 \/ MatchSet("PARTIAL", req) = {} THEN 0
    ELSE Min(MatchSet("PARTIAL", req))

\* ... else, with redirect_slashes, a route that matches the path with its
\* trailing slash toggled.
SlashMatch(req) ==
    /\ FullMatch(req) = 0
    /\ PartialMatch(req) = 0
    /\ req.path # Root
    /\ \E k \in 1..Len(routes) : PathMatch(routes[k].path, RedirectPath(req.path))

\* --------------------------------------------------------------- actions
\* A connection receives a request.
Receive(c) ==
    /\ pc[c] = "idle"
    /\ \E req \in Inputs : request' = [request EXCEPT ![c] = req]
    /\ pc' = [pc EXCEPT ![c] = "route"]
    /\ UNCHANGED <<routes, scope, solved, result, response, invoked, log>>

Respond(c, resp) ==
    /\ response' = [response EXCEPT ![c] = resp]
    /\ pc' = [pc EXCEPT ![c] = "done"]

\* The path and the method match a route of main.py: on to its parameters.
RouteApi(c) ==
    /\ pc[c] = "route"
    /\ FullMatch(request[c]) # 0
    /\ routes[FullMatch(request[c])].api
    /\ LET k == FullMatch(request[c]) IN
       scope' = [scope EXCEPT ![c] =
                    [route |-> k, endpoint |-> routes[k].endpoint,
                     path_params |-> PathParams(routes[k].path, request[c].path)]]
    /\ pc' = [pc EXCEPT ![c] = "solve"]
    /\ UNCHANGED <<routes, request, solved, result, response, invoked, log>>

\* The path and the method match a documentation route.
RouteDoc(c) ==
    /\ pc[c] = "route"
    /\ FullMatch(request[c]) # 0
    /\ ~routes[FullMatch(request[c])].api
    /\ LET k == FullMatch(request[c]) IN
       /\ scope' = [scope EXCEPT ![c] =
                       [route |-> k, endpoint |-> routes[k].endpoint, path_params |-> <<>>]]
       /\ Respond(c, DocResponse(routes[k].endpoint))
    /\ UNCHANGED <<routes, request, solved, result, invoked, log>>

\* The path matches a route, the method does not.
RouteMethodNotAllowed(c) ==
    /\ pc[c] = "route"
    /\ PartialMatch(request[c]) # 0
    /\ Respond(c, MethodNotAllowed)
    /\ UNCHANGED <<routes, request, scope, solved, result, invoked, log>>

\* No route matches, one does with the trailing slash toggled.
RouteRedirect(c) ==
    /\ pc[c] = "route"
    /\ SlashMatch(request[c])
    /\ Respond(c, RedirectResponse(RedirectPath(request[c].path)))
    /\ UNCHANGED <<routes, request, scope, solved, result, invoked, log>>

\* No route matches at all.
RouteNotFound(c) ==
    /\ pc[c] = "route"
    /\ FullMatch(request[c]) = 0
    /\ PartialMatch(request[c]) = 0
    /\ ~SlashMatch(request[c])
    /\ Respond(c, NotFound)
    /\ UNCHANGED <<routes, request, scope, solved, result, invoked, log>>

\* Variant: the endpoint is called whatever the validation found.
SolveUnchecked(c) ==
    /\ pc[c] = "solve"
    /\ solved' = [solved EXCEPT ![c] =
                    SolveDependencies(routes[scope[c].route].params,
                                      scope[c].path_params, request[c].query)]
    /\ pc' = [pc EXCEPT ![c] = "call"]
    /\ UNCHANGED <<routes, request, scope, result, response, invoked, log>>

\* The declared parameters are read and validated; all valid.
Solve(c) ==
    /\ pc[c] = "solve"
    /\ LET s == SolveDependencies(routes[scope[c].route].params,
                                  scope[c].path_params, request[c].query) IN
       /\ s.errors = <<>>
       /\ solved' = [solved EXCEPT ![c] = s]
    /\ pc' = [pc EXCEPT ![c] = "call"]
    /\ UNCHANGED <<routes, request, scope, result, response, invoked, log>>

\* ... or not: the request ends with the validation error response.
Reject(c) ==
    /\ pc[c] = "solve"
    /\ LET s == SolveDependencies(routes[scope[c].route].params,
                                  scope[c].path_params, request[c].query) IN
       /\ s.errors # <<>>
       /\ solved' = [solved EXCEPT ![c] = s]
       /\ Respond(c, ValidationErrorResponse(s.errors))
    /\ UNCHANGED <<routes, request, scope, result, invoked, log>>

\* Variant: the arguments are kept in one module-level slot, which every
\* connection overwrites (here: the slot of the first connection).
CallShared(c) ==
    /\ pc[c] = "call"
    /\ result' = [result EXCEPT ![c] =
                    IF pc[1] \in {"call", "serialize", "done"} /\ scope[1].endpoint = scope[c].endpoint
                    THEN CallEndpoint(scope[c].endpoint, solved[1].values)
                    ELSE CallEndpoint(scope[c].endpoint, solved[c].values)]
    /\ invoked' = [invoked EXCEPT ![c] =
                      Append(@, [endpoint |-> scope[c].endpoint, kwargs |-> solved[c].values])]
    /\ pc' = [pc EXCEPT ![c] = "serialize"]
    /\ UNCHANGED <<routes, request, scope, solved, response, log>>

\* The endpoint function runs with the solved arguments.
Call(c) ==
    /\ pc[c] = "call"
    /\ result' = [result EXCEPT ![c] = CallEndpoint(scope[c].endpoint, solved[c].values)]
    /\ invoked' = [invoked EXCEPT ![c] =
                      Append(@, [endpoint |-> scope[c].endpoint, kwargs |-> solved[c].values])]
    /\ pc' = [pc EXCEPT ![c] = "serialize"]
    /\ UNCHANGED <<routes, request, scope, solved, response, log>>

\* Its return value is encoded and sent with status 200.
Serialize(c) ==
    /\ pc[c] = "serialize"
    /\ Respond(c, JsonResponse(200, JsonableEncoder(result[c])))
    /\ UNCHANGED <<routes, request, scope, solved, result, invoked, log>>

\* How a finished request went, for the history kept in log.
Outcome(status) ==
    IF status = 200 THEN "successful"
    ELSE IF status = 404 THEN "unknown"
    ELSE "rejected"

\* The exchange is over: the request's data is discarded and the connection
\* can take the next request.
Finish(c) ==
    /\ pc[c] = "done"
    /\ log' = log \cup {Outcome(response[c].status)}
    /\ pc' = [pc EXCEPT ![c] = "idle"]
    /\ request' = [request EXCEPT ![c] = NoRequest]
    /\ scope' = [scope EXCEPT ![c] = NoScope]
    /\ solved' = [solved EXCEPT ![c] = NoSolved]
    /\ result' = [result EXCEPT ![c] = <<>>]
    /\ response' = [response EXCEPT ![c] = NoResponse]
    /\ invoked' = [invoked EXCEPT ![c] = <<>>]
    /\ UNCHANGED routes

Next ==
    \E c \in Conns :
        \/ Receive(c)
        \/ RouteApi(c)
        \/ RouteDoc(c)
        \/ RouteMethodNotAllowed(c)
        \/ RouteRedirect(c)
        \/ RouteNotFound(c)
        \/ Solve(c)
        \/ Reject(c)
        \/ Call(c)
        \/ Serialize(c)
        \/ Finish(c)

Spec == Init /\ [][Next]_vars

SpecConcurrent == InitConcurrent /\ [][Next]_vars

\* ================================================================ claims
Done(c) == pc[c] = "done"

IsItemPath(p) == Len(p) = 2 /\ p[1] = <<"items">> /\ p[2] # <<>>

DocPaths ==
    { << <<"openapi.json">> >>, << <<"docs">> >>,
      << <<"docs">>, <<"oauth2-redirect">> >>, << <<"redoc">> >> }

ItemBody(n, q) == << <<"item_id", JInt(n)>>, <<"q", q>> >>

HelloBody == << <<"Hello", JStr(<<"World">>)>> >>

\* A body of the form {"item_id": ..., "q": ...}.
IsSuccessBody(b) == Len(b) = 2 /\ b[1][1] = "item_id" /\ b[2][1] = "q"

\* The query string carries no q.
NoQ(query) == \A k \in 1..Len(query) : query[k][1] # "q"

\* An optionally signed run of base-10 digits, nothing else.
SignedDecimal(s) ==
    /\ s # <<>>
    /\ \A k \in 1..Len(s) : s[k] \in Digits \/ (k = 1 /\ s[k] \in {"-", "+"})
    /\ \E k \in 1..Len(s) : s[k] \in Digits

\* The same between optional surrounding whitespace and before an optional
\* decimal point followed by zeros only.
LenientDecimal(s) ==
    \E i \in 1..Len(s) : \E j \in i..Len(s) : \E d \in i..j :
        /\ \A k \in 1..(i - 1) : IsSpace(s[k])
        /\ \A k \in (j + 1)..Len(s) : IsSpace(s[k])
        /\ SignedDecimal(SubSeq(s, i, d))
        /\ d < j => s[d + 1] = "."
        /\ \A k \in (d + 2)..j : s[k] = "0"

\* C1: GET /items/{x} without q, x parsing as the integer n, is answered
\* 200 with exactly {"item_id": n, "q": null}, n a JSON number.
C1_ItemWithoutQ ==
    \A c \in Conns :
        ( /\ Done(c)
          /\ request[c].method = "GET"
          /\ IsItemPath(request[c].path)
          /\ IntParses(request[c].path[2])
          /\ NoQ(request[c].query) )
        => response[c] = JsonResponse(200, ItemBody(IntValue(request[c].path[2]), JNull))

C1_Witness ==
    \E c \in Conns :
        /\ Done(c)
        /\ request[c].method = "GET"
        /\ request[c].path = << <<"items">>, <<"-", "1", "0">> >>
        /\ request[c].query = <<>>
        /\ response[c].status = 200
        /\ response[c].body = ItemBody(-10, JNull)

\* C2: GET /items/{n}?q={s} is answered 200 with {"item_id": n, "q": s},
\* s unchanged, the empty string included.
C2_ItemWithQ ==
    \A c \in Conns :
        ( /\ Done(c)
          /\ request[c].method = "GET"
          /\ IsItemPath(request[c].path)
          /\ IntParses(request[c].path[2])
          /\ Len(request[c].query) = 1
          /\ request[c].query[1][1] = "q" )
        => response[c] = JsonResponse(200, ItemBody(IntValue(request[c].path[2]),
                                                    JStr(request[c].query[1][2])))

C2_Witness ==
    \E c \in Conns :
        /\ Done(c)
        /\ request[c].method = "GET"
        /\ request[c].path = << <<"items">>, <<"1">> >>
        /\ request[c].query = << <<"q", <<>>>> >>
        /\ response[c].body = ItemBody(1, JStr(<<>>))

C4_RootAlwaysHello ==
    \A c \in Conns :
        (Done(c) /\ request[c].method = "GET" /\ request[c].path = Root)
        => response[c] = JsonResponse(200, HelloBody)

C4_Witness ==
    \E c \in Conns :
        /\ Done(c)
        /\ request[c].method = "GET"
        /\ request[c].path = Root
        /\ request[c].query # <<>>
        /\ log = {"successful", "rejected", "unknown"}
        /\ response[c].status = 200

\* C5 as stated: a GET whose path is neither / nor /items/{item_id} is
\* answered 404 and calls no endpoint function.
C5_Original ==
    \A c \in Conns :
        ( /\ Done(c)
          /\ request[c].method = "GET"
          /\ request[c].path # Root
          /\ ~IsItemPath(request[c].path) )
        => response[c].status = 404 /\ invoked[c] = <<>>

Registered(p) == p = Root \/ IsItemPath(p) \/ p \in DocPaths

\* The path with its trailing slashes removed, or with one added.
Toggled(p) ==
    IF p[Len(p)] # <<>> THEN p \o << <<>> >>
    ELSE LET n == CHOOSE n \in 0..Len(p) :
                      /\ \A k \in (n + 1)..Len(p) : p[k] = <<>>
                      /\ n > 0 => p[n] # <<>>
         IN  SubSeq(p, 1, n)

\* C5 amended: a GET whose path is none of /, /items/{item_id} and the
\* documentation paths /openapi.json, /docs, /docs/oauth2-redirect, /redoc,
\* and is none of them either with its trailing slash added or removed, is
\* answered 404 and calls no endpoint function.
C5_UnknownPathNotFound ==
    \A c \in Conns :
        ( /\ Done(c)
          /\ request[c].method = "GET"
          /\ ~Registered(request[c].path)
          /\ ~Registered(Toggled(request[c].path)) )
        => response[c].status = 404 /\ invoked[c] = <<>>

C5_Witness ==
    \E c \in Conns :
        /\ Done(c)
        /\ request[c].method = "GET"
        /\ request[c].path = << <<"items">>, <<"1">>, <<"1">> >>
        /\ response[c] = NotFound
        /\ invoked[c] = <<>>

\* C6: a GET to / or to /items/{item_id} is answered 200 or 422, and 422
\* exactly when item_id does not parse as an integer, whatever the query
\* string; every error of the 422 is about the path parameter item_id.
C6_OnlyItemIdFails ==
    \A c \in Conns :
        ( /\ Done(c)
          /\ request[c].method = "GET"
          /\ request[c].path = Root \/ IsItemPath(request[c].path) )
        => /\ response[c].status \in {200, 422}
           /\ response[c].status = 422
                <=> (IsItemPath(request[c].path) /\ ~IntParses(request[c].path[2]))
           /\ \A k \in 1..Len(solved[c].errors) :
                 solved[c].errors[k].loc = <<"path", "item_id">>

C6_Witness ==
    \E c \in Conns :
        /\ Done(c)
        /\ request[c].method = "GET"
        /\ request[c].path = << <<"items">>, <<"1">> >>
        /\ request[c].query = << <<"q", <<"a">>>>, <<"q", <<>>>> >>
        /\ response[c].status = 200

\* C7: a 422 response carries, under "detail", an error that names the
\* field (path, item_id), the expected type (integer) and the received x.
C7_ValidationErrorBody ==
    \A c \in Conns :
        (Done(c) /\ response[c].status = 422)
        => /\ Len(response[c].body) = 1
           /\ response[c].body[1][1] = "detail"
           /\ response[c].body[1][2].t = "array"
           /\ \E k \in 1..Len(response[c].body[1][2].errs) :
                 LET e == response[c].body[1][2].errs[k] IN
                 /\ e.loc = <<"path", "item_id">>
                 /\ e.type = "int_parsing"
                 /\ e.msg = "Input should be a valid integer, unable to parse string as an integer"
                 /\ e.input = request[c].path[2]

C7_Witness ==
    \E c \in Conns :
        /\ Done(c)
        /\ response[c].status = 422
        /\ request[c].path = << <<"items">>, <<"a">> >>
        /\ response[c].body[1][2].errs[1].input = <<"a">>

\* The response a request gets from the application as main.py builds it,
\* when it is the only request ever sent.
Alone(req) ==
    IF req.path = Root
    THEN IF req.method = "GET" THEN JsonResponse(200, HelloBody) ELSE MethodNotAllowed
    ELSE IF IsItemPath(req.path)
    THEN IF req.method # "GET" THEN MethodNotAllowed
         ELSE IF LenientDecimal(req.path[2])
         THEN JsonResponse(200, ItemBody(IntValue(req.path[2]),
                 IF NoQ(req.query) THEN JNull ELSE JStr(Get(req.query, "q").v)))
         ELSE ValidationErrorResponse(<<IntParsingError(ItemRoute.params[1], req.path[2])>>)
    ELSE IF req.path \in DocPaths
    THEN IF req.method \notin {"GET", "HEAD"} THEN MethodNotAllowed
         ELSE IF req.path = << <<"openapi.json">> >> THEN DocResponse("openapi")
         ELSE IF req.path = << <<"docs">> >> THEN DocResponse("swagger_ui_html")
         ELSE IF req.path = << <<"redoc">> >> THEN DocResponse("redoc_html")
         ELSE DocResponse("swagger_ui_redirect")
    ELSE IF Registered(Toggled(req.path)) THEN RedirectResponse(Toggled(req.path))
    ELSE NotFound

\* A step of one connection leaves every other connection's data alone.
NoInterference ==
    \A c \in Conns :
        pc'[c] = pc[c] =>
            /\ request'[c] = request[c]
            /\ scope'[c] = scope[c]
            /\ solved'[c] = solved[c]
            /\ result'[c] = result[c]
            /\ response'[c] = response[c]
            /\ invoked'[c] = invoked[c]

\* C8: with requests interleaved on several connections, every response is
\* the one the same request gets alone; no step changes the route table or
\* another connection's data.
C8_Stateless ==
    /\ [](\A c \in Conns : Done(c) => response[c] = Alone(request[c]))
    /\ [][routes' = routes /\ NoInterference]_vars

C8_Witness ==
    /\ Cardinality(Conns) > 1
    /\ Done(1)
    /\ request[1].path = << <<"items">>, <<"1">> >>
    /\ response[1].status = 200
    /\ pc[2] = "serialize"
    /\ request[2].path = << <<"items">>, <<"-", "1">> >>
    /\ log # {}

\* The endpoint calls of a request are made from the "call" step only, with
\* the arguments validation produced: an integer item_id for read_item.
CalledAfterValidation ==
    \A c \in Conns :
        (invoked'[c] # invoked[c] /\ invoked'[c] # <<>>) =>
            /\ pc[c] = "call"
            /\ scope[c].route # 0
            /\ solved[c].errors = <<>>
            /\ invoked[c] = <<>>
            /\ invoked'[c][1].endpoint = routes[scope[c].route].endpoint
            /\ invoked'[c][1].endpoint = "read_item" =>
                  /\ Get(invoked'[c][1].kwargs, "item_id").present
                  /\ Get(invoked'[c][1].kwargs, "item_id").v.t = "int"

\* C9: routing and validation come before the endpoint call; read_item is
\* called only with an integer item_id; once validation has failed the
\* endpoint is never called for that request, which ends with the 422.
C9_ValidateBeforeCall ==
    /\ [][CalledAfterValidation]_vars
    /\ [](\A c \in Conns :
            solved[c].errors # <<>> =>
                /\ invoked[c] = <<>>
                /\ Done(c)
                /\ response[c].status = 422)

C9_Witness ==
    \E c \in Conns :
        /\ Done(c)
        /\ solved[c].errors # <<>>
        /\ invoked[c] = <<>>
        /\ request[c].path = << <<"items">>, <<"1", "a">> >>
        /\ response[c].status = 422

\* C10: POST, PUT, DELETE and PATCH to / or /items/{item_id} call no
\* endpoint function and are answered 405, a valid item_id included.
C10_OtherMethodsRejected ==
    \A c \in Conns :
        ( /\ request[c].method \in {"POST", "PUT", "DELETE", "PATCH"}
          /\ request[c].path = Root \/ IsItemPath(request[c].path) )
        => /\ invoked[c] = <<>>
           /\ Done(c) => response[c] = MethodNotAllowed

C10_Witness ==
    \E c \in Conns :
        /\ Done(c)
        /\ request[c].method = "DELETE"
        /\ request[c].path = << <<"items">>, <<"1">> >>
        /\ response[c].status = 405

====
